---- MODULE Spec2Model ----
(***************************************************************************)
(* A model of the CLI utilities of @local/cli-utils: the argument parser   *)
(* (parseArgs, extractCommand, extractGlobalFlags, kebabToCamel,           *)
(* camelToKebab) and the runner runCli of validator.ts.                    *)
(*                                                                         *)
(* A JavaScript string is a sequence of one-character strings, so that the *)
(* parser's startsWith / includes / slice / split / replace are computed   *)
(* character by character, as the code computes them.                      *)
(***************************************************************************)
EXTENDS Integers, Sequences, FiniteSets, TLC

VARIABLES
    argv,               \* process.argv.slice(2): a sequence of strings
    pc,                 \* the position of runCli (or of the transcoder run)
    commandName,        \* extractCommand(argv): a string value or undefined
    rawArgs,            \* parseArgs(argv): key -> string or boolean value
    consumed,           \* ghost: the argv positions parseArgs stored as option values
    globals,            \* extractGlobalFlags(rawArgs)
    commandDef,         \* commands[commandName]
    parseResult,        \* commandDef.schema.safeParse(rawArgs)
    client,             \* the client of this run: undefined until constructed
    constructCount,     \* how many times new ClientClass() was evaluated
    disableCacheCalls,  \* how many times client.disableCache() was called
    handlerCalls,       \* the calls of commandDef.handler, with their arguments
    result,             \* what the handler's promise resolved to
    pending,            \* the error in flight (thrown, not yet caught)
    disconnectCalls,    \* how many times client.disconnect() was called
    stdout,             \* what console.log wrote, in order
    stderr,             \* what console.error wrote, in order
    exitCodes,          \* the codes process.exit was called with, in order
    str,                \* the transcoder run: the input identifier
    camel,              \* the transcoder run: kebabToCamel(str)
    kebab,              \* the transcoder run: camelToKebab(camel)
    defaultVal,         \* cliTypes.limit: its first parameter
    max,                \* cliTypes.limit: its second parameter
    val,                \* the raw value given to the limit schema
    num,                \* what the preprocess step of the limit schema returned
    limitResult         \* the outcome of the limit schema on val

cliVars == <<argv, pc, commandName, rawArgs, consumed, globals, commandDef,
             parseResult, client, constructCount, disableCacheCalls,
             handlerCalls, result, pending, disconnectCalls, stdout, stderr,
             exitCodes>>
transVars == <<str, camel, kebab>>
limitVars == <<defaultVal, max, val, num, limitResult>>
vars == <<cliVars, transVars, limitVars>>

(***************************************************************************)
(* Bounds of the model.                                                    *)
(***************************************************************************)
MaxArgs == 3    \* the longest argv
MaxIdLen == 5   \* the longest identifier given to the transcoder
MaxLimit == 3   \* the largest max given to cliTypes.limit

(***************************************************************************)
(* JavaScript values: a string, a boolean or undefined.                    *)
(***************************************************************************)
Str(s) == [t |-> "string", b |-> FALSE, s |-> s]
Bool(b) == [t |-> "boolean", b |-> b, s |-> <<>>]
Undefined == [t |-> "undefined", b |-> FALSE, s |-> <<>>]

\* ToBoolean: the empty string, false and undefined are falsy.
Truthy(v) ==
    CASE v.t = "string" -> v.s # <<>>
      [] v.t = "boolean" -> v.b
      [] OTHER -> FALSE

(***************************************************************************)
(* Characters.                                                             *)
(***************************************************************************)
LowerSeq == <<"a", "b", "c", "d", "e", "f", "g", "h", "i", "j", "k", "l", "m",
              "n", "o", "p", "q", "r", "s", "t", "u", "v", "w", "x", "y", "z">>
UpperSeq == <<"A", "B", "C", "D", "E", "F", "G", "H", "I", "J", "K", "L", "M",
              "N", "O", "P", "Q", "R", "S", "T", "U", "V", "W", "X", "Y", "Z">>

IsLower(c) == \E i \in 1..Len(LowerSeq) : LowerSeq[i] = c
IsUpper(c) == \E i \in 1..Len(UpperSeq) : UpperSeq[i] = c
IsDigit(c) == c \in {"0", "1", "2", "3", "4", "5", "6", "7", "8", "9"}

toUpperCase(c) ==
    IF IsLower(c) THEN UpperSeq[CHOOSE i \in 1..Len(LowerSeq) : LowerSeq[i] = c]
    ELSE c
toLowerCase(c) ==
    IF IsUpper(c) THEN LowerSeq[CHOOSE i \in 1..Len(UpperSeq) : UpperSeq[i] = c]
    ELSE c

(***************************************************************************)
(* String.prototype operations the parser uses.                            *)
(***************************************************************************)
startsWith(s, p) == Len(s) >= Len(p) /\ SubSeq(s, 1, Len(p)) = p
includes(s, c) == \E i \in 1..Len(s) : s[i] = c
slice(s, n) == SubSeq(s, n + 1, Len(s))

RECURSIVE SplitFrom(_, _, _, _)
SplitFrom(s, sep, i, cur) ==
    IF i > Len(s) THEN <<cur>>
    ELSE IF s[i] = sep THEN <<cur>> \o SplitFrom(s, sep, i + 1, <<>>)
    ELSE SplitFrom(s, sep, i + 1, Append(cur, s[i]))
split(s, sep) == SplitFrom(s, sep, 1, <<>>)

RECURSIVE join(_, _)
join(parts, sep) ==
    IF Len(parts) = 0 THEN <<>>
    ELSE IF Len(parts) = 1 THEN parts[1]
    ELSE parts[1] \o <<sep>> \o join(Tail(parts), sep)

(***************************************************************************)
(* The name transcoder.                                                    *)
(***************************************************************************)
\* str.replace(/-([a-z])/g, (_, letter) => letter.toUpperCase()): a left to
\* right scan; a hyphen followed by a lowercase letter is replaced, with that
\* letter, by the letter in upper case; the scan resumes after the letter.
RECURSIVE KebabScan(_, _)
KebabScan(s, i) ==
    IF i > Len(s) THEN <<>>
    ELSE IF s[i] = "-" /\ i < Len(s) /\ IsLower(s[i + 1])
         THEN <<toUpperCase(s[i + 1])>> \o KebabScan(s, i + 2)
         ELSE <<s[i]>> \o KebabScan(s, i + 1)
\* A transcoder that leaves the hyphens and the letters after them as they are.
kebabToCamelKeepsHyphens(s) == s
kebabToCamel(s) == KebabScan(s, 1)

\* str.replace(/([A-Z])/g, "-$1").toLowerCase()
RECURSIVE CamelScan(_, _)
CamelScan(s, i) ==
    IF i > Len(s) THEN <<>>
    ELSE IF IsUpper(s[i]) THEN <<"-", s[i]>> \o CamelScan(s, i + 1)
    ELSE <<s[i]>> \o CamelScan(s, i + 1)
\* A transcoder that inserts the hyphens but forgets toLowerCase().
camelToKebabNoLowerCase(s) == CamelScan(s, 1)
camelToKebab(s) ==
    LET r == CamelScan(s, 1) IN [i \in 1..Len(r) |-> toLowerCase(r[i])]

(***************************************************************************)
(* RawArgs: a JavaScript object used as a map from key to value.           *)
(***************************************************************************)
EmptyArgs == [k \in {} |-> Undefined]
Get(args, k) == IF k \in DOMAIN args THEN args[k] ELSE Undefined
Set(args, k, v) == [x \in (DOMAIN args) \cup {k} |-> IF x = k THEN v ELSE args[x]]

(***************************************************************************)
(* parseArgs: the loop of lines 32-65, from index i (1-based) with the     *)
(* mapping built so far. The result carries, beside the mapping, the argv  *)
(* positions the loop stored as an option's value (line 59) and skipped    *)
(* (line 60).                                                              *)
(***************************************************************************)
\* Line 42: the value of --key=value, everything after the first "=".
equalsValueFirstPartOnly(parts) == IF Len(parts) >= 2 THEN parts[2] ELSE <<>>
equalsValue(parts) == join(Tail(parts), "=")

\* Line 50: key.startsWith("no-")
isNegationNever(key) == FALSE
isNegation(key) == startsWith(key, <<"n", "o", "-">>)

\* Line 58: nextArg && !nextArg.startsWith("--")
isValue(nextArg) == Truthy(nextArg) /\ ~startsWith(nextArg.s, <<"-", "-">>)

RECURSIVE ParseLoop(_, _, _, _)
ParseLoop(av, i, args, used) ==
    IF i > Len(av) THEN [args |-> args, used |-> used]
    ELSE LET arg == av[i] IN
      IF ~startsWith(arg, <<"-", "-">>) THEN ParseLoop(av, i + 1, args, used)
      ELSE IF includes(arg, "=")
      THEN LET parts == split(slice(arg, 2), "=")
               key == parts[1]
               value == equalsValue(parts)
           IN ParseLoop(av, i + 1, Set(args, kebabToCamel(key), Str(value)), used)
      ELSE LET key == slice(arg, 2) IN
        IF isNegation(key)
        THEN LET positiveKey == slice(key, 3)
             IN ParseLoop(av, i + 1,
                          Set(args, kebabToCamel(positiveKey), Bool(FALSE)), used)
        ELSE LET nextArg == IF i + 1 <= Len(av) THEN Str(av[i + 1]) ELSE Undefined
             IN IF isValue(nextArg)
                THEN ParseLoop(av, i + 2,
                               Set(args, kebabToCamel(key), nextArg),
                               used \cup {i + 1})
                ELSE ParseLoop(av, i + 1,
                               Set(args, kebabToCamel(key), Bool(TRUE)), used)

parseArgs(av) == ParseLoop(av, 1, EmptyArgs, {}).args
valuePositions(av) == ParseLoop(av, 1, EmptyArgs, {}).used

\* argv.find((arg) => !arg.startsWith("--"))
extractCommand(av) ==
    IF \E i \in 1..Len(av) : ~startsWith(av[i], <<"-", "-">>)
    THEN Str(av[CHOOSE i \in 1..Len(av) :
                  /\ ~startsWith(av[i], <<"-", "-">>)
                  /\ \A j \in 1..(i - 1) : startsWith(av[j], <<"-", "-">>)])
    ELSE Undefined

StrTrue == <<"t", "r", "u", "e">>
StrNoCache == <<"n", "o", "C", "a", "c", "h", "e">>
StrHelp == <<"h", "e", "l", "p">>
StrVerbose == <<"v", "e", "r", "b", "o", "s", "e">>

\* args.x === true || args.x === "true"
IsTrueFlag(v) == v = Bool(TRUE) \/ v = Str(StrTrue)

extractGlobalFlags(args) ==
    [noCache |-> IsTrueFlag(Get(args, StrNoCache)),
     help |-> IsTrueFlag(Get(args, StrHelp)),
     verbose |-> IsTrueFlag(Get(args, StrVerbose))]

(***************************************************************************)
(* cliTypes.limit(defaultVal, max): z.preprocess(f, z.number().int()       *)
(* .min(1).max(max).default(defaultVal)), with the zod 3 API the file is   *)
(* written against (ZodEffects, issue.received, _def.defaultValue()).      *)
(*                                                                         *)
(* A JavaScript number is undefined (no number), NaN, or a finite value    *)
(* sign * (n + fraction): whole tells that the fraction is zero.           *)
(***************************************************************************)
NumUndefined == [kind |-> "undefined", neg |-> FALSE, n |-> 0, whole |-> TRUE]
NumNaN == [kind |-> "nan", neg |-> FALSE, n |-> 0, whole |-> TRUE]
Num(k) == [kind |-> "number", neg |-> k < 0, n |-> IF k < 0 THEN 0 - k ELSE k,
           whole |-> TRUE]

DigitChars == <<"0", "1", "2", "3", "4", "5", "6", "7", "8", "9">>
DigitValue(c) == (CHOOSE i \in 1..Len(DigitChars) : DigitChars[i] = c) - 1
AllDigits(s) == \A i \in 1..Len(s) : IsDigit(s[i])
RECURSIVE DigitsValue(_)
DigitsValue(s) ==
    IF Len(s) = 0 THEN 0
    ELSE 10 * DigitsValue(SubSeq(s, 1, Len(s) - 1)) + DigitValue(s[Len(s)])

\* Number(val) on a boolean, and on a string of the decimal forms
\* [-]digits[.digits]; any other non-empty string here gives NaN.
Number(v) ==
    IF v.t = "boolean" THEN Num(IF v.b THEN 1 ELSE 0)
    ELSE IF v.t = "undefined" THEN NumNaN
    ELSE LET neg == Len(v.s) >= 1 /\ v.s[1] = "-"
             body == IF neg THEN Tail(v.s) ELSE v.s
             parts == split(body, ".")
         IN IF Len(v.s) = 0 THEN Num(0)
            ELSE IF Len(parts) > 2 \/ ~AllDigits(parts[1])
                    \/ (Len(parts) = 2 /\ ~AllDigits(parts[2]))
                    \/ (Len(parts[1]) = 0 /\ (Len(parts) = 1 \/ Len(parts[2]) = 0))
            THEN NumNaN
            ELSE [kind |-> "number", neg |-> neg, n |-> DigitsValue(parts[1]),
                  whole |-> Len(parts) = 1 \/ DigitsValue(parts[2]) = 0]

\* (val) => (val === "" || val === undefined ? undefined : Number(val))
limitPreprocess(v) ==
    IF v = Str(<<>>) \/ v = Undefined THEN NumUndefined ELSE Number(v)

\* x < 1 and x > m on a finite number.
BelowOne(x) == x.neg \/ x.n < 1
Above(x, m) == ~x.neg /\ (x.n > m \/ (x.n = m /\ ~x.whole))

NoLimitResult == [success |-> FALSE, value |-> 0, issues |-> {}]

\* z.number().int().min(1).max(m): NaN and undefined are not numbers; on a
\* number every failing check adds its issue.
zodNumberIntMinMax(m, x) ==
    IF x.kind # "number"
    THEN [success |-> FALSE, value |-> 0, issues |-> {"invalid_type"}]
    ELSE LET issues == (IF x.whole THEN {} ELSE {"not_integer"})
                       \cup (IF BelowOne(x) THEN {"too_small"} ELSE {})
                       \cup (IF Above(x, m) THEN {"too_big"} ELSE {})
         IN IF issues = {} THEN [success |-> TRUE, value |-> x.n, issues |-> {}]
            ELSE [success |-> FALSE, value |-> 0, issues |-> issues]

\* A schema whose default is returned as it is, without the checks.
limitSchemaDefaultUnchecked(d, m, x) ==
    IF x.kind = "undefined" THEN [success |-> TRUE, value |-> d, issues |-> {}]
    ELSE zodNumberIntMinMax(m, x)

\* .default(defaultVal): undefined is replaced by the default, which then
\* goes through the number schema like any other value.
limitSchema(d, m, x) ==
    zodNumberIntMinMax(m, IF x.kind = "undefined" THEN Num(d) ELSE x)

(***************************************************************************)
(* The command registry given to runCli: cacheCommands().                  *)
(***************************************************************************)
CmdCacheStats == <<"c", "a", "c", "h", "e", "-", "s", "t", "a", "t", "s">>
CmdCacheClear == <<"c", "a", "c", "h", "e", "-", "c", "l", "e", "a", "r">>
CmdCacheInvalidate ==
    <<"c", "a", "c", "h", "e", "-", "i", "n", "v", "a", "l", "i", "d", "a", "t", "e">>
StrKey == <<"k", "e", "y">>

cacheCommands == {CmdCacheStats, CmdCacheClear, CmdCacheInvalidate}

\* The registry is an object literal: a property read also finds what the
\* object inherits from Object.prototype.
ObjectPrototypeKeys ==
    {<<"c", "o", "n", "s", "t", "r", "u", "c", "t", "o", "r">>,
     <<"t", "o", "S", "t", "r", "i", "n", "g">>}

NoCommandDef == [kind |-> "undefined", name |-> <<>>]

\* commands[commandName]
Lookup(commands, name) ==
    IF name \in commands THEN [kind |-> "own", name |-> name]
    ELSE IF name \in ObjectPrototypeKeys THEN [kind |-> "inherited", name |-> name]
    ELSE NoCommandDef

\* The schemas of cacheCommands(): z.object({}) for cache-stats and
\* cache-clear, z.object({ key: z.string().min(1) }) for cache-invalidate.
\* z.object keeps the declared fields only.
NoParseResult == [success |-> FALSE, data |-> EmptyArgs, issues |-> <<>>]

safeParse(name, args) ==
    IF name # CmdCacheInvalidate
    THEN [success |-> TRUE, data |-> EmptyArgs, issues |-> <<>>]
    ELSE LET v == Get(args, StrKey) IN
      IF v.t = "string" /\ Len(v.s) >= 1
      THEN [success |-> TRUE, data |-> Set(EmptyArgs, StrKey, v), issues |-> <<>>]
      ELSE IF v.t = "string"
      THEN [success |-> FALSE, data |-> EmptyArgs,
            issues |-> <<[path |-> StrKey, code |-> "too_small", received |-> "string"]>>]
      ELSE [success |-> FALSE, data |-> EmptyArgs,
            issues |-> <<[path |-> StrKey, code |-> "invalid_type", received |-> v.t]>>]

\* One line per issue: the flag is "--" and the path in kebab case.
formatZodError(issues) ==
    [i \in 1..Len(issues) |->
        [flag |-> <<"-", "-">> \o camelToKebab(issues[i].path),
         text |-> IF issues[i].code = "invalid_type"
                  THEN IF issues[i].received = "undefined"
                       THEN "Missing required argument"
                       ELSE "Expected, got"
                  ELSE "Value too small"]]

(***************************************************************************)
(* The values of the run.                                                  *)
(***************************************************************************)
NoClient == [defined |-> FALSE, disableCache |-> FALSE, disconnect |-> FALSE]
NoGlobals == [noCache |-> FALSE, help |-> FALSE, verbose |-> FALSE]
NoError == "none"

\* What a constructor, a method of the client or a handler may throw: an
\* Error, a value String() renders (a string, a number), or a value String()
\* itself throws on (an object without a prototype, a throwing toString).
Thrown == {"Error", "string", "unprintable"}

\* What a handler may resolve to: a value JSON.stringify renders, or one it
\* throws on (a BigInt, a cyclic object).
Results == {"json", "cyclic"}

\* process.exit(code): the process ends here; nothing of runCli runs after it.
processExit(code) ==
    /\ exitCodes' = Append(exitCodes, code)
    /\ pc' = "exited"

(***************************************************************************)
(* The inputs of a run.                                                    *)
(***************************************************************************)
TokenPool ==
    {<<"-", "-", "h", "e", "l", "p">>,                                \* --help
     <<"h", "e", "l", "p">>,                                          \* help
     <<"-", "h">>,                                                    \* -h
     <<"-", "-", "n", "o", "-", "c", "a", "c", "h", "e">>,            \* --no-cache
     <<"-", "-", "n", "o", "-", "c", "a", "c", "h", "e", "=", "t", "r", "u", "e">>,
     <<"-", "-", "v", "e", "r", "b", "o", "s", "e">>,                 \* --verbose
     <<"-", "-", "k", "e", "y">>,                                     \* --key
     <<"-", "-", "k", "e", "y", "=", "a", "=", "b">>,                 \* --key=a=b
     <<"-", "-", "k", "e", "y", "=">>,                                \* --key=
     CmdCacheStats,
     CmdCacheInvalidate,
     <<"b", "o", "g", "u", "s">>,                                     \* bogus
     <<"c", "o", "n", "s", "t", "r", "u", "c", "t", "o", "r">>,       \* constructor
     <<"-", "-", "t", "o", "p", "-", "5">>,                           \* --top-5
     <<"-", "5">>,                                                    \* -5
     <<>>}                                                            \* ""

ArgvSet == UNION {[1..n -> TokenPool] : n \in 0..MaxArgs}

Init ==
    /\ argv \in ArgvSet
    /\ pc = "start"
    /\ commandName = Undefined
    /\ rawArgs = EmptyArgs
    /\ consumed = {}
    /\ globals = NoGlobals
    /\ commandDef = NoCommandDef
    /\ parseResult = NoParseResult
    /\ client = NoClient
    /\ constructCount = 0
    /\ disableCacheCalls = 0
    /\ handlerCalls = <<>>
    /\ result = "none"
    /\ pending = NoError
    /\ disconnectCalls = 0
    /\ stdout = <<>>
    /\ stderr = <<>>
    /\ exitCodes = <<>>
    /\ str = <<>>
    /\ camel = <<>>
    /\ kebab = <<>>
    /\ defaultVal = 0
    /\ max = 0
    /\ val = Undefined
    /\ num = NumUndefined
    /\ limitResult = NoLimitResult

(***************************************************************************)
(* runCli, step by step.                                                   *)
(***************************************************************************)
\* Lines 255-258.
Tokenize ==
    /\ pc = "start"
    /\ commandName' = extractCommand(argv)
    /\ rawArgs' = parseArgs(argv)
    /\ consumed' = valuePositions(argv)
    /\ globals' = extractGlobalFlags(parseArgs(argv))
    /\ pc' = "help"
    /\ UNCHANGED <<argv, commandDef, parseResult, client, constructCount,
                   disableCacheCalls, handlerCalls, result, pending,
                   disconnectCalls, stdout, stderr, exitCodes, transVars, limitVars>>

\* A help test that forgets the reserved word "help".
helpRequestedNoWord(g, name) == g.help \/ ~Truthy(name)
\* globals.help || !commandName || commandName === "help"
helpRequested(g, name) == g.help \/ ~Truthy(name) \/ name = Str(StrHelp)

\* Lines 260-264.
HelpCheck ==
    /\ pc = "help"
    /\ IF helpRequested(globals, commandName)
       THEN /\ stdout' = Append(stdout, [kind |-> "help"])
            /\ processExit(0)
       ELSE /\ pc' = "lookup"
            /\ UNCHANGED <<stdout, exitCodes>>
    /\ UNCHANGED <<argv, commandName, rawArgs, consumed, globals, commandDef,
                   parseResult, client, constructCount, disableCacheCalls,
                   handlerCalls, result, pending, disconnectCalls, stderr,
                   transVars, limitVars>>

\* Lines 266-274.
LookupCommand ==
    /\ pc = "lookup"
    /\ commandDef' = Lookup(cacheCommands, commandName.s)
    /\ IF Lookup(cacheCommands, commandName.s).kind = "undefined"
       THEN /\ stderr' = Append(stderr, [error |-> TRUE, kind |-> "Unknown command",
                                        about |-> <<commandName.s>>])
            /\ processExit(1)
       ELSE /\ pc' = "validate"
            /\ UNCHANGED <<stderr, exitCodes>>
    /\ UNCHANGED <<argv, commandName, rawArgs, consumed, globals, parseResult,
                   client, constructCount, disableCacheCalls, handlerCalls,
                   result, pending, disconnectCalls, stdout, transVars, limitVars>>

\* A runner that validates but goes on to construct the client whatever the
\* outcome of the validation.
ValidateIgnoresFailure ==
    /\ pc = "validate"
    /\ commandDef.kind = "own"
    /\ parseResult' = safeParse(commandDef.name, rawArgs)
    /\ pc' = "construct"
    /\ UNCHANGED <<argv, commandName, rawArgs, consumed, globals, commandDef,
                   client, constructCount, disableCacheCalls, handlerCalls,
                   result, pending, disconnectCalls, stdout, stderr, exitCodes,
                   transVars, limitVars>>

\* Lines 276-285. An inherited property of the registry has no schema:
\* commandDef.schema.safeParse throws a TypeError, outside the try block, and
\* the promise of runCli rejects.
Validate ==
    /\ pc = "validate"
    /\ IF commandDef.kind = "inherited"
       THEN /\ pending' = "Error"
            /\ pc' = "rejected"
            /\ UNCHANGED <<parseResult, stderr, exitCodes>>
       ELSE /\ parseResult' = safeParse(commandDef.name, rawArgs)
            /\ IF ~safeParse(commandDef.name, rawArgs).success
               THEN /\ stderr' = Append(stderr,
                          [error |-> TRUE, kind |-> "Validation",
                           about |-> formatZodError(
                                       safeParse(commandDef.name, rawArgs).issues)])
                    /\ processExit(1)
               ELSE /\ pc' = "construct"
                    /\ UNCHANGED <<stderr, exitCodes>>
            /\ UNCHANGED pending
    /\ UNCHANGED <<argv, commandName, rawArgs, consumed, globals, commandDef,
                   client, constructCount, disableCacheCalls, handlerCalls,
                   result, disconnectCalls, stdout, transVars, limitVars>>

\* Line 291: new ClientClass() throws, or gives a client that has or lacks
\* disableCache and disconnect.
Construct ==
    /\ pc = "construct"
    /\ constructCount' = constructCount + 1
    /\ \/ \E e \in Thrown :
            /\ pending' = e
            /\ pc' = "catch"
            /\ UNCHANGED client
       \/ \E dc \in BOOLEAN, disc \in BOOLEAN :
            /\ client' = [defined |-> TRUE, disableCache |-> dc, disconnect |-> disc]
            /\ pc' = "applyFlags"
            /\ UNCHANGED pending
    /\ UNCHANGED <<argv, commandName, rawArgs, consumed, globals, commandDef,
                   parseResult, disableCacheCalls, handlerCalls, result,
                   disconnectCalls, stdout, stderr, exitCodes, transVars, limitVars>>

\* A test that forgets the flag and looks at the client only.
shouldDisableCacheIgnoresFlag(g, c) == c.disableCache
\* Line 294: globals.noCache && typeof client.disableCache === "function"
shouldDisableCache(g, c) == g.noCache /\ c.disableCache

\* Lines 293-296.
ApplyGlobalFlags ==
    /\ pc = "applyFlags"
    /\ IF shouldDisableCache(globals, client)
       THEN /\ disableCacheCalls' = disableCacheCalls + 1
            /\ \/ /\ pc' = "execute"
                  /\ UNCHANGED pending
               \/ \E e \in Thrown :
                    /\ pending' = e
                    /\ pc' = "catch"
       ELSE /\ pc' = "execute"
            /\ UNCHANGED <<disableCacheCalls, pending>>
    /\ UNCHANGED <<argv, commandName, rawArgs, consumed, globals, commandDef,
                   parseResult, client, constructCount, handlerCalls, result,
                   disconnectCalls, stdout, stderr, exitCodes, transVars, limitVars>>

\* A runner that hands the handler the raw arguments, not the validated ones.
InvokeHandlerRawArgs ==
    /\ pc = "execute"
    /\ handlerCalls' = Append(handlerCalls,
                              [command |-> commandDef.name,
                               args |-> rawArgs,
                               client |-> client,
                               globals |-> globals])
    /\ pc' = "awaitHandler"
    /\ UNCHANGED <<argv, commandName, rawArgs, consumed, globals, commandDef,
                   parseResult, client, constructCount, disableCacheCalls,
                   result, pending, disconnectCalls, stdout, stderr, exitCodes,
                   transVars, limitVars>>

\* Line 299: the call commandDef.handler(parseResult.data, client, globals).
InvokeHandler ==
    /\ pc = "execute"
    /\ handlerCalls' = Append(handlerCalls,
                              [command |-> commandDef.name,
                               args |-> parseResult.data,
                               client |-> client,
                               globals |-> globals])
    /\ pc' = "awaitHandler"
    /\ UNCHANGED <<argv, commandName, rawArgs, consumed, globals, commandDef,
                   parseResult, client, constructCount, disableCacheCalls,
                   result, pending, disconnectCalls, stdout, stderr, exitCodes,
                   transVars, limitVars>>

\* Line 299: the await. The handler's promise resolves or rejects (or never
\* settles: the run then stays here).
HandlerSettles ==
    /\ pc = "awaitHandler"
    /\ \/ \E r \in Results :
            /\ result' = r
            /\ pc' = "output"
            /\ UNCHANGED pending
       \/ \E e \in Thrown :
            /\ pending' = e
            /\ pc' = "catch"
            /\ UNCHANGED result
    /\ UNCHANGED <<argv, commandName, rawArgs, consumed, globals, commandDef,
                   parseResult, client, constructCount, disableCacheCalls,
                   handlerCalls, disconnectCalls, stdout, stderr, exitCodes,
                   transVars, limitVars>>

\* Lines 301-303: JSON.stringify(result) throws a TypeError on a value it
\* cannot render, before anything is printed.
OutputResult ==
    /\ pc = "output"
    /\ IF result = "json"
       THEN /\ stdout' = Append(stdout, [kind |-> "result"])
            /\ processExit(0)
            /\ UNCHANGED pending
       ELSE /\ pending' = "Error"
            /\ pc' = "catch"
            /\ UNCHANGED <<stdout, exitCodes>>
    /\ UNCHANGED <<argv, commandName, rawArgs, consumed, globals, commandDef,
                   parseResult, client, constructCount, disableCacheCalls,
                   handlerCalls, result, disconnectCalls, stderr, transVars, limitVars>>

\* A catch block that reports the error but forgets process.exit(1).
CatchWithoutExit ==
    /\ pc = "catch"
    /\ stderr' = Append(stderr, [error |-> TRUE, kind |-> "Exception",
                                 about |-> <<pending>>])
    /\ pc' = "finally"
    /\ UNCHANGED <<argv, commandName, rawArgs, consumed, globals, commandDef,
                   parseResult, client, constructCount, disableCacheCalls,
                   handlerCalls, result, pending, disconnectCalls, stdout,
                   exitCodes, transVars, limitVars>>

\* Lines 304-309: error instanceof Error ? error.message : String(error).
\* When String(error) throws, the catch block is left by that exception.
Catch ==
    /\ pc = "catch"
    /\ IF pending = "unprintable"
       THEN /\ pending' = "Error"
            /\ pc' = "finally"
            /\ UNCHANGED <<stderr, exitCodes>>
       ELSE /\ stderr' = Append(stderr, [error |-> TRUE, kind |-> "Exception",
                                        about |-> <<pending>>])
            /\ processExit(1)
            /\ pending' = NoError
    /\ UNCHANGED <<argv, commandName, rawArgs, consumed, globals, commandDef,
                   parseResult, client, constructCount, disableCacheCalls,
                   handlerCalls, result, disconnectCalls, stdout, transVars, limitVars>>

\* client && typeof client.disconnect === "function"
canDisconnect(c) == c.defined /\ c.disconnect

\* Lines 310-315: the finally block, reached when control leaves the try or
\* the catch block other than by process.exit.
Finally ==
    /\ pc = "finally"
    /\ IF canDisconnect(client)
       THEN /\ disconnectCalls' = disconnectCalls + 1
            /\ pc' = "awaitDisconnect"
       ELSE /\ pc' = "rejected"
            /\ UNCHANGED disconnectCalls
    /\ UNCHANGED <<argv, commandName, rawArgs, consumed, globals, commandDef,
                   parseResult, client, constructCount, disableCacheCalls,
                   handlerCalls, result, pending, stdout, stderr, exitCodes,
                   transVars, limitVars>>

\* Line 313: the await of disconnect(); the pending exception then leaves
\* runCli, whose promise rejects.
DisconnectSettles ==
    /\ pc = "awaitDisconnect"
    /\ pc' = "rejected"
    /\ UNCHANGED <<argv, commandName, rawArgs, consumed, globals, commandDef,
                   parseResult, client, constructCount, disableCacheCalls,
                   handlerCalls, result, pending, disconnectCalls, stdout,
                   stderr, exitCodes, transVars, limitVars>>

Next ==
    \/ Tokenize
    \/ HelpCheck
    \/ LookupCommand
    \/ Validate
    \/ Construct
    \/ ApplyGlobalFlags
    \/ InvokeHandler
    \/ HandlerSettles
    \/ OutputResult
    \/ Catch
    \/ Finally
    \/ DisconnectSettles

Spec == Init /\ [][Next]_vars

(***************************************************************************)
(* The name transcoder applied to bounded identifiers.                     *)
(***************************************************************************)
IdAlphabet == {"a", "b", "2", "-"}
IdStrings == UNION {[1..n -> IdAlphabet] : n \in 0..MaxIdLen}

TranscoderInit ==
    /\ str \in IdStrings
    /\ camel = <<>>
    /\ kebab = <<>>
    /\ pc = "kebabToCamel"
    /\ argv = <<>>
    /\ commandName = Undefined
    /\ rawArgs = EmptyArgs
    /\ consumed = {}
    /\ globals = NoGlobals
    /\ commandDef = NoCommandDef
    /\ parseResult = NoParseResult
    /\ client = NoClient
    /\ constructCount = 0
    /\ disableCacheCalls = 0
    /\ handlerCalls = <<>>
    /\ result = "none"
    /\ pending = NoError
    /\ disconnectCalls = 0
    /\ stdout = <<>>
    /\ stderr = <<>>
    /\ exitCodes = <<>>
    /\ defaultVal = 0
    /\ max = 0
    /\ val = Undefined
    /\ num = NumUndefined
    /\ limitResult = NoLimitResult

ApplyKebabToCamel ==
    /\ pc = "kebabToCamel"
    /\ camel' = kebabToCamel(str)
    /\ pc' = "camelToKebab"
    /\ UNCHANGED <<str, kebab, argv, commandName, rawArgs, consumed, globals,
                   commandDef, parseResult, client, constructCount,
                   disableCacheCalls, handlerCalls, result, pending,
                   disconnectCalls, stdout, stderr, exitCodes, limitVars>>

ApplyCamelToKebab ==
    /\ pc = "camelToKebab"
    /\ kebab' = camelToKebab(camel)
    /\ pc' = "transcoded"
    /\ UNCHANGED <<str, camel, argv, commandName, rawArgs, consumed, globals,
                   commandDef, parseResult, client, constructCount,
                   disableCacheCalls, handlerCalls, result, pending,
                   disconnectCalls, stdout, stderr, exitCodes, limitVars>>

TranscoderNext == ApplyKebabToCamel \/ ApplyCamelToKebab

TranscoderSpec == TranscoderInit /\ [][TranscoderNext]_vars

(***************************************************************************)
(* Vocabulary of the properties.                                           *)
(***************************************************************************)
Terminated == pc \in {"exited", "rejected"}
Tokenized == pc \notin {"start", "kebabToCamel", "camelToKebab", "transcoded"}
HelpRendered == stdout = <<[kind |-> "help"]>>
ResultPrinted == stdout = <<[kind |-> "result"]>>
ValidationFailed == ~parseResult.success /\ parseResult.issues # <<>>
UnknownCommandReported ==
    \E i \in 1..Len(stderr) : stderr[i].kind = "Unknown command"
HasToken(tok) == \E i \in 1..Len(argv) : argv[i] = tok
IsOption(tok) == startsWith(tok, <<"-", "-">>)
\* The position of the command token: the first token that is not an option.
CommandPosition(p) ==
    /\ p \in 1..Len(argv)
    /\ ~IsOption(argv[p])
    /\ \A j \in 1..(p - 1) : IsOption(argv[j])

(***************************************************************************)
(* C1. When the client was constructed and has a disconnect operation,     *)
(* that operation has been called exactly once by the time the run ends,   *)
(* whether the handler returned (exit code 0) or threw (exit code 1).      *)
(***************************************************************************)
C1_TeardownOnceBeforeExit ==
    (Terminated /\ client.defined /\ client.disconnect) => disconnectCalls = 1

(***************************************************************************)
(* C2. A run that reaches the command lookup with a command token that is  *)
(* not a key of the registry never constructs the client and never calls a *)
(* handler, and ends with an "Unknown command" error object on standard    *)
(* error and exit code 1.                                                  *)
(***************************************************************************)
C2_UnknownCommandRejected ==
    (/\ Tokenized
     /\ pc # "help"
     /\ ~HelpRendered
     /\ commandName.s \notin cacheCommands)
    => /\ constructCount = 0
       /\ handlerCalls = <<>>
       /\ Terminated => /\ UnknownCommandReported
                        /\ exitCodes = <<1>>

(***************************************************************************)
(* C3. The client is constructed only after the schema of the command has  *)
(* accepted the raw arguments; when the validation fails the client is     *)
(* never constructed, the handler is never called and the run exits with   *)
(* code 1.                                                                 *)
(***************************************************************************)
C3_ValidationPrecedesConstruction ==
    /\ constructCount > 0 =>
          /\ commandDef.kind = "own"
          /\ parseResult = safeParse(commandDef.name, rawArgs)
          /\ parseResult.success
    /\ (pc \notin {"start", "help", "lookup", "validate"} /\ commandDef.kind = "own"
          /\ ~safeParse(commandDef.name, rawArgs).success) =>
          /\ constructCount = 0
          /\ handlerCalls = <<>>
          /\ pc = "exited"
          /\ exitCodes = <<1>>

C3_Witness ==
    /\ pc = "exited"
    /\ commandDef.name = CmdCacheInvalidate
    /\ ValidationFailed
    /\ constructCount = 0
    /\ exitCodes = <<1>>

(***************************************************************************)
(* C4. Every run ends with exactly one exit code, 0 or 1: 0 exactly when   *)
(* help was rendered or the handler completed and its result was printed;  *)
(* 1 exactly when the command was found unknown, the validation failed, or *)
(* the construction of the client or the handler raised an error.          *)
(***************************************************************************)
ConstructionRaised == constructCount > 0 /\ ~client.defined
HandlerRaised == handlerCalls # <<>> /\ result = "none" /\ pc # "awaitHandler"

C4_ExitCodeContract ==
    Terminated =>
       /\ Len(exitCodes) = 1
       /\ exitCodes[1] \in {0, 1}
       /\ exitCodes[1] = 0 <=> (HelpRendered \/ ResultPrinted)
       /\ exitCodes[1] = 1 <=> \/ UnknownCommandReported
                               \/ ValidationFailed
                               \/ ConstructionRaised
                               \/ HandlerRaised

(***************************************************************************)
(* C5. Whenever the derived help flag is true, or there is no command      *)
(* token, or the command token is "help", the run prints the help text on  *)
(* standard output and exits with code 0, and nothing of the later steps   *)
(* (lookup, validation, construction, cache disabling, handler, teardown)  *)
(* happens.                                                                *)
(***************************************************************************)
C5_HelpShortCircuit ==
    (/\ Tokenized
     /\ pc # "help"
     /\ \/ globals.help
        \/ commandName = Undefined
        \/ commandName = Str(StrHelp))
    => /\ pc = "exited"
       /\ HelpRendered
       /\ exitCodes = <<0>>
       /\ stderr = <<>>
       /\ commandDef = NoCommandDef
       /\ parseResult = NoParseResult
       /\ constructCount = 0
       /\ disableCacheCalls = 0
       /\ handlerCalls = <<>>
       /\ disconnectCalls = 0

C5_Witness ==
    /\ pc = "exited"
    /\ commandName = Str(StrHelp)
    /\ ~globals.help
    /\ HelpRendered
    /\ exitCodes = <<0>>

(***************************************************************************)
(* C6. The command token (the first token that does not start with "--")  *)
(* is never placed in the raw arguments: parseArgs does not store the      *)
(* token at the command's position as the value of an option.              *)
(***************************************************************************)
C6_CommandNotInRawArgs ==
    Tokenized => \A p \in 1..Len(argv) : CommandPosition(p) => p \notin consumed

(***************************************************************************)
(* C7. Whenever argv holds the token "--help", before or after the command *)
(* token, the help flag is derived as true, so that the run renders help   *)
(* and exits with code 0 without constructing a client or calling a        *)
(* handler. Stated on the outcome of the run, which the derived flag       *)
(* decides.                                                                *)
(***************************************************************************)
C7_HelpFlagAnywhere ==
    (Terminated /\ HasToken(<<"-", "-", "h", "e", "l", "p">>))
    => /\ HelpRendered
       /\ exitCodes = <<0>>
       /\ constructCount = 0
       /\ handlerCalls = <<>>

(***************************************************************************)
(* C8. Whenever argv holds the token "--no-cache", the raw arguments have  *)
(* noCache = true and the derived noCache flag is true.                    *)
(***************************************************************************)
C8_NoCacheFlagSet ==
    (Tokenized /\ HasToken(<<"-", "-", "n", "o", "-", "c", "a", "c", "h", "e">>))
    => /\ Get(rawArgs, StrNoCache) = Bool(TRUE)
       /\ globals.noCache

(***************************************************************************)
(* C9. For every identifier s made of lowercase alphanumeric segments      *)
(* joined by single hyphens, camelToKebab(kebabToCamel(s)) = s.            *)
(***************************************************************************)
IsLowerAlnum(c) == IsLower(c) \/ IsDigit(c)
ValidKebab(s) ==
    /\ Len(s) >= 1
    /\ \A i \in 1..Len(s) : IsLowerAlnum(s[i]) \/ s[i] = "-"
    /\ s[1] # "-"
    /\ s[Len(s)] # "-"
    /\ \A i \in 1..(Len(s) - 1) : ~(s[i] = "-" /\ s[i + 1] = "-")

C9_TranscoderRoundTrip ==
    (pc = "transcoded" /\ ValidKebab(str)) => kebab = str

C9_Witness ==
    /\ pc = "transcoded"
    /\ str = <<"a", "-", "b", "-", "2">>
    /\ camel = <<"a", "B", "-", "2">>
    /\ kebab = str

(***************************************************************************)
(* C10. Every key of the mapping parseArgs returns is in compact form.     *)
(* As claimed: no key holds a hyphen.                                      *)
(***************************************************************************)
C10_KeysHaveNoHyphen ==
    Tokenized => \A k \in DOMAIN rawArgs : ~includes(k, "-")

\* As amended: no key holds a hyphen followed by a lowercase letter (the
\* hyphens that remain are those no lowercase letter followed in the option).
C10_KeysHaveNoWordHyphen ==
    Tokenized =>
        \A k \in DOMAIN rawArgs :
            \A i \in 1..(Len(k) - 1) : ~(k[i] = "-" /\ IsLower(k[i + 1]))

C10_Witness ==
    /\ Tokenized
    /\ StrNoCache \in DOMAIN rawArgs
    /\ <<"t", "o", "p", "-", "5">> \in DOMAIN rawArgs

(***************************************************************************)
(* C11. The short help flag of the help text works: a run with the single  *)
(* argument "-h" renders the help text and exits with code 0, as "--help"  *)
(* does.                                                                   *)
(***************************************************************************)
C11_ShortHelpFlag ==
    (Terminated /\ argv = <<(<<"-", "h">>)>>)
    => /\ HelpRendered
       /\ exitCodes = <<0>>

(***************************************************************************)
(* Vocabulary of the tokenizer rules: the three shapes of an option token, *)
(* the key each is stored under, and whether the token at position i is    *)
(* the last one of argv that sets its key (the last occurrence wins).      *)
(***************************************************************************)
EqualsOption(tok) == IsOption(tok) /\ includes(tok, "=")
NegationOption(tok) ==
    IsOption(tok) /\ ~includes(tok, "=") /\ startsWith(tok, <<"-", "-", "n", "o", "-">>)
PlainOption(tok) ==
    IsOption(tok) /\ ~includes(tok, "=") /\ ~startsWith(tok, <<"-", "-", "n", "o", "-">>)
FirstEquals(tok) ==
    CHOOSE i \in 1..Len(tok) : tok[i] = "=" /\ \A j \in 1..(i - 1) : tok[j] # "="
NamePart(tok) ==
    IF EqualsOption(tok) THEN SubSeq(tok, 3, FirstEquals(tok) - 1)
    ELSE IF NegationOption(tok) THEN SubSeq(tok, 6, Len(tok))
    ELSE SubSeq(tok, 3, Len(tok))
RestPart(tok) == SubSeq(tok, FirstEquals(tok) + 1, Len(tok))
LastSetter(i) ==
    \A j \in (i + 1)..Len(argv) :
        IsOption(argv[j]) => kebabToCamel(NamePart(argv[j])) # kebabToCamel(NamePart(argv[i]))

(***************************************************************************)
(* C12. For an option token "--key" (no "=", not "--no-<name>"): when a    *)
(* next token exists and does not start with "--" (the empty string and    *)
(* "-5" included), that token is stored as the option's string value and   *)
(* skipped by the scan; otherwise the option is set to boolean true.       *)
(***************************************************************************)
C12_ValueConsumption ==
    Tokenized =>
      \A i \in 1..Len(argv) :
        PlainOption(argv[i]) =>
          IF i < Len(argv) /\ ~IsOption(argv[i + 1])
          THEN /\ (i + 1) \in consumed
               /\ LastSetter(i) =>
                    Get(rawArgs, kebabToCamel(NamePart(argv[i]))) = Str(argv[i + 1])
          ELSE LastSetter(i) =>
                    Get(rawArgs, kebabToCamel(NamePart(argv[i]))) = Bool(TRUE)

C14_EqualsRule ==
    Tokenized =>
      \A i \in 1..Len(argv) :
        EqualsOption(argv[i]) =>
          /\ (i + 1) \notin consumed
          /\ LastSetter(i) =>
               Get(rawArgs, kebabToCamel(NamePart(argv[i]))) = Str(RestPart(argv[i]))

C14_Witness ==
    /\ Tokenized
    /\ Len(argv) = 3
    /\ argv[1] = <<"-", "-", "n", "o", "-", "c", "a", "c", "h", "e", "=", "t", "r", "u", "e">>
    /\ argv[2] = <<"-", "-", "k", "e", "y", "=", "a", "=", "b">>
    /\ argv[3] = <<"-", "5">>
    /\ Get(rawArgs, StrNoCache) = Str(StrTrue)
    /\ Get(rawArgs, StrKey) = Str(<<"a", "=", "b">>)
    /\ consumed = {}

(***************************************************************************)
(* cliTypes.limit applied to bounded parameters and raw values.            *)
(***************************************************************************)
LimitInputs ==
    {Undefined, Bool(TRUE), Bool(FALSE), Str(<<>>),
     Str(<<"-", "1">>), Str(<<"2", ".", "5">>), Str(<<"1", ".", "0">>),
     Str(<<"a", "b", "c">>)}
    \cup {Str(<<DigitChars[k + 1]>>) : k \in 0..(MaxLimit + 1)}

LimitInit ==
    /\ defaultVal \in 0..(MaxLimit + 1)
    /\ max \in 0..MaxLimit
    /\ val \in LimitInputs
    /\ num = NumUndefined
    /\ limitResult = NoLimitResult
    /\ pc = "limitPreprocess"
    /\ argv = <<>>
    /\ commandName = Undefined
    /\ rawArgs = EmptyArgs
    /\ consumed = {}
    /\ globals = NoGlobals
    /\ commandDef = NoCommandDef
    /\ parseResult = NoParseResult
    /\ client = NoClient
    /\ constructCount = 0
    /\ disableCacheCalls = 0
    /\ handlerCalls = <<>>
    /\ result = "none"
    /\ pending = NoError
    /\ disconnectCalls = 0
    /\ stdout = <<>>
    /\ stderr = <<>>
    /\ exitCodes = <<>>
    /\ str = <<>>
    /\ camel = <<>>
    /\ kebab = <<>>

LimitPreprocess ==
    /\ pc = "limitPreprocess"
    /\ num' = limitPreprocess(val)
    /\ pc' = "limitValidate"
    /\ UNCHANGED <<defaultVal, max, val, limitResult, argv, commandName,
                   rawArgs, consumed, globals, commandDef, parseResult, client,
                   constructCount, disableCacheCalls, handlerCalls, result,
                   pending, disconnectCalls, stdout, stderr, exitCodes,
                   transVars>>

LimitValidate ==
    /\ pc = "limitValidate"
    /\ limitResult' = limitSchema(defaultVal, max, num)
    /\ pc' = "limitParsed"
    /\ UNCHANGED <<defaultVal, max, val, num, argv, commandName, rawArgs,
                   consumed, globals, commandDef, parseResult, client,
                   constructCount, disableCacheCalls, handlerCalls, result,
                   pending, disconnectCalls, stdout, stderr, exitCodes,
                   transVars>>

LimitNext == LimitPreprocess \/ LimitValidate

LimitSpec == LimitInit /\ [][LimitNext]_vars

(***************************************************************************)
(* C15. Whenever the limit schema accepts its input (an absent or empty    *)
(* input included, where defaultVal stands in), the value it gives is an   *)
(* integer of [1, max], whatever defaultVal and max are.                   *)
(***************************************************************************)
C15_LimitInRange ==
    (pc = "limitParsed" /\ limitResult.success)
    => /\ limitResult.value \in Int
       /\ 1 <= limitResult.value
       /\ limitResult.value <= max

C15_Witness ==
    /\ pc = "limitParsed"
    /\ val = Str(<<>>)
    /\ defaultVal = 2
    /\ max = 3
    /\ limitResult = [success |-> TRUE, value |-> 2, issues |-> {}]

(***************************************************************************)
(* C16. In a run that reaches the construction of the client, disableCache *)
(* is called exactly once, after the construction and before the handler   *)
(* is called, if and only if the derived noCache flag is true and the      *)
(* client has disableCache; otherwise it is never called.                  *)
(***************************************************************************)
C16_CacheDisabling ==
    /\ ~client.defined => disableCacheCalls = 0
    /\ (client.defined /\ pc = "applyFlags") =>
          /\ disableCacheCalls = 0
          /\ handlerCalls = <<>>
    /\ (client.defined /\ pc # "applyFlags") =>
          disableCacheCalls = IF globals.noCache /\ client.disableCache THEN 1 ELSE 0

C16_Witness ==
    /\ client.defined
    /\ globals.noCache
    /\ disableCacheCalls = 1
    /\ Len(handlerCalls) = 1

(***************************************************************************)
(* C17. In every run the client is constructed at most once and the        *)
(* handler is called at most once, only after the command was found, the   *)
(* validation succeeded and the construction completed without error; the  *)
(* handler receives the validated arguments, that client and the global    *)
(* flags.                                                                  *)
(***************************************************************************)
C17_HandlerCalledOnce ==
    /\ constructCount <= 1
    /\ Len(handlerCalls) <= 1
    /\ handlerCalls # <<>> =>
          /\ commandDef.kind = "own"
          /\ commandDef.name = commandName.s
          /\ parseResult = safeParse(commandDef.name, rawArgs)
          /\ parseResult.success
          /\ constructCount = 1
          /\ client.defined
          /\ handlerCalls[1] = [command |-> commandDef.name,
                                args |-> parseResult.data,
                                client |-> client,
                                globals |-> globals]

C17_Witness ==
    /\ Len(handlerCalls) = 1
    /\ handlerCalls[1].command = CmdCacheInvalidate
    /\ handlerCalls[1].args = Set(EmptyArgs, StrKey, Str(<<"a", "=", "b">>))
    /\ handlerCalls[1].globals.verbose
    /\ constructCount = 1

====
